---- MODULE Spec2Model ----
(***************************************************************************)
(* A model of src/split_data.py: filter_and_prepend_path and the pipeline  *)
(* split_json_data (load, key check, filter, two-stage split, three file   *)
(* writes).                                                                *)
(*                                                                         *)
(* Strings are sequences of one-character strings.  A JSON record is a     *)
(* Python dict held on a heap: the lists the code passes around hold       *)
(* references (heap addresses), so that the in-place update of line 23 is  *)
(* an update of the shared object.  A record's fields other than `path`    *)
(* are never read or written by the code; the address stands for them.     *)
(*                                                                         *)
(* The input document, when it is JSON, is an object whose "annotation",   *)
(* when present, is a list of objects; the input path and the three output *)
(* paths are four different paths.                                         *)
(*                                                                         *)
(* train_test_split is scikit-learn's (imported at line 3, called at lines *)
(* 67 and 70): it sizes the two parts from the list length and the given   *)
(* fraction, refuses an empty first part with ValueError, draws one        *)
(* permutation of the positions from a generator seeded with random_state, *)
(* and returns the positions after the first n_test as the first list and  *)
(* the first n_test positions as the second.                               *)
(***************************************************************************)
EXTENDS Integers, Sequences, FiniteSets, TLC

\* ------------------------------------------------------------------ bounds
\* Longest annotation list of an enumerated input document.
MaxRecords == 6
\* Longest list handed to filter_and_prepend_path when it is called directly.
MaxLen == 3
\* Most distinct dict objects behind such a list (references may repeat).
MaxObjs == 2
\* The random permutations considered are the rotations by 0..MaxShift of
\* the identity and of its reverse.
MaxShift == 1
\* How many times the script is run on the same files.
MaxRuns == 2

\* Sizes of the uniform large documents (the scenario of 100 records, and the
\* 50 that survive the filter in the demonstration data of lines 91-104).
LargeSizes == {50, 100}

\* ----------------------------------------------------------------- strings
\* str.startswith (line 19).
StartsWith(s, p) == Len(p) <= Len(s) /\ SubSeq(s, 1, Len(p)) = p

\* A dict with or without the key "path".
Rec(hp, p) == [has_path |-> hp, path |-> p]
NoPath == Rec(FALSE, <<>>)

\* item.get("path", "") (line 19).
GetPath(item) == IF item.has_path THEN item.path ELSE <<>>

\* The values the inputs are drawn from.
Paths == {<<"L", "a">>, <<"O", "a">>}
FilterPaths == Paths \cup {<<>>, <<"L">>}
Prefixes == {<<>>, <<"L">>}
Prepends == {<<>>, <<"r">>}
\* train_size as a fraction <<numerator, denominator>>: 0.8 (the default of
\* line 29) and 0.5.  For the list lengths met here the floating-point
\* products 0.8 * n and 0.5 * n have the floor and the ceiling of the exact
\* ones: the double nearest 0.8 lies above 0.8 by less than 1e-16.
TrainSizes == {<<4, 5>>, <<1, 2>>}
Seeds == {42}

DefaultTrainSize == <<4, 5>>

RECURSIVE SeqsUpTo(_, _)
SeqsUpTo(S, n) ==
    IF n = 0 THEN {<<>>}
    ELSE LET shorter == SeqsUpTo(S, n - 1)
         IN  shorter \cup {Append(s, x) : s \in {t \in shorter : Len(t) = n - 1}, x \in S}

Range(s) == {s[i] : i \in 1..Len(s)}

Min(a, b) == IF a <= b THEN a ELSE b

\* ------------------------------------------------ filter_and_prepend_path
\* The condition of the list comprehension (line 19) with the test dropped.
KeepsMut(item, filter_prefix) == TRUE

\* The condition of the list comprehension (line 19).
Keeps(item, filter_prefix) == StartsWith(GetPath(item), filter_prefix)

\* Lines 18-20: the references of the items that pass, in list order.
Comprehension(heap, annotations, filter_prefix) ==
    LET Passes(a) == Keeps(heap[a], filter_prefix)
    IN  SelectSeq(annotations, Passes)

RECURSIVE Times(_, _)
Times(s, k) == IF k = 0 THEN <<>> ELSE s \o Times(s, k - 1)

\* Lines 22-23: the loop over filtered_annotations.  Each visit rewrites the
\* visited object in place, so an object is rewritten once for every position
\* that refers to it; item["path"] on a dict without the key raises KeyError
\* and leaves the updates of the earlier positions done.
PrependLoop(heap, filtered, prepend_path) ==
    LET keyless == {i \in 1..Len(filtered) : ~heap[filtered[i]].has_path}
        stop == IF keyless = {} THEN Len(filtered) + 1
                ELSE CHOOSE i \in keyless : \A j \in keyless : i <= j
        visits(a) == Cardinality({i \in 1..(stop - 1) : filtered[i] = a})
    IN  [heap |-> [a \in 1..Len(heap) |->
                     [heap[a] EXCEPT !.path = Times(prepend_path, visits(a)) \o @]],
         raised |-> keyless # {}]

\* Lines 6-25: the heap after the call, the returned list, and whether the
\* call ended in KeyError.
filter_and_prepend_path(heap, annotations, filter_prefix, prepend_path) ==
    LET filtered_annotations == Comprehension(heap, annotations, filter_prefix)
        loop == PrependLoop(heap, filtered_annotations, prepend_path)
    IN  [heap |-> loop.heap,
         result |-> IF loop.raised THEN <<>> ELSE filtered_annotations,
         raised |-> loop.raised]

\* -------------------------------------------------------- train_test_split
\* An argument left at its default None.
None == <<0, 0>>

Floor(num, den) == num \div den
Ceil(num, den) == (num + den - 1) \div den

\* n_test with the test fraction left at the library default of 0.25.
n_test_of_Mut(n_samples, test_size, n_train) ==
    IF test_size = None THEN n_samples - n_train ELSE Ceil(n_samples, 4)

\* The size of the second part: ceil(test_size * n_samples) for a fraction,
\* the complement of the first part when test_size is None.
n_test_of(n_samples, test_size, n_train) ==
    IF test_size = None THEN n_samples - n_train
    ELSE Ceil(test_size[1] * n_samples, test_size[2])

\* The sizes <<n_train, n_test>> train_test_split derives from the length and
\* the one fraction the caller gives (line 67 gives train_size, line 70 gives
\* test_size): floor(train_size * n_samples) for a fraction, the complement
\* otherwise.
validate_shuffle_split(n_samples, test_size, train_size) ==
    LET n_train_f == Floor(train_size[1] * n_samples, train_size[2])
        n_test == n_test_of(n_samples, test_size, n_train_f)
        n_train == IF train_size = None THEN n_samples - n_test ELSE n_train_f
    IN  <<n_train, n_test>>

\* The rotation by k of the identity on 1..n, or of its reverse.
Rotation(n, k, rev) ==
    [i \in 1..n |-> LET j == ((i - 1 + k) % n) + 1 IN IF rev THEN n + 1 - j ELSE j]

\* The permutations of 1..n the generator may return.
PermFamily(n) == {Rotation(n, k, rev) : k \in 0..Min(MaxShift, n - 1), rev \in BOOLEAN}

\* A generator that is not seeded: every call draws afresh.
rng_permutationMut(mt, random_state, n) == PermFamily(n)

\* RandomState(random_state).permutation(n): a fixed function of the seed and
\* n.  mt records the values of that function seen so far; a value not yet
\* seen is any member of the family.
rng_permutation(mt, random_state, n) ==
    LET seen == {e \in mt : e.seed = random_state /\ e.n = n}
    IN  IF seen = {} THEN PermFamily(n) ELSE {e.perm : e \in seen}

\* The first part takes the head of the permutation, where the second part is.
ind_trainMut(permutation, n_train, n_test) == SubSeq(permutation, 1, n_train)

\* The split's index lists: the second part is permutation[:n_test], the
\* first part permutation[n_test:n_test + n_train].
ind_train(permutation, n_train, n_test) == SubSeq(permutation, n_test + 1, n_test + n_train)
ind_test(permutation, n_train, n_test) == SubSeq(permutation, 1, n_test)

\* Indexing a list by an index list.
Index(list, ind) == [i \in 1..Len(ind) |-> list[ind[i]]]

\* train_test_split(list, test_size=, train_size=, random_state=) for one
\* permutation: the two lists, or ValueError when the first would be empty.
train_test_split(list, test_size, train_size, permutation) ==
    LET sizes == validate_shuffle_split(Len(list), test_size, train_size)
        n_train == sizes[1]
        n_test == sizes[2]
    IN  IF n_train = 0
        THEN [raised |-> TRUE, first |-> <<>>, second |-> <<>>]
        ELSE [raised |-> FALSE,
              first |-> Index(list, ind_train(permutation, n_train, n_test)),
              second |-> Index(list, ind_test(permutation, n_train, n_test))]

\* ------------------------------------------------------------------- state
VARIABLES
    input_file,            \* what is at input_json_path
    out_files,             \* what is at the three output paths
    filter_prefix, prepend_path, train_size, random_state,   \* the arguments
    pc,                    \* where the run stands
    err,                   \* the message printed or the exception raised
    run,                   \* which run of the script this is
    heap,                  \* the dict objects, by address
    heap0,                 \* the objects as they were when the list was made
    annotations,           \* lists of references
    modified_annotations,
    train_data, temp_data, test_data, valid_data,
    mt,                    \* the generator's values seen so far
    completed              \* the outputs of the runs that completed

vars == <<input_file, out_files, filter_prefix, prepend_path, train_size, random_state,
          pc, err, run, heap, heap0, annotations, modified_annotations,
          train_data, temp_data, test_data, valid_data, mt, completed>>

args == <<filter_prefix, prepend_path, train_size, random_state>>
lists == <<train_data, temp_data, test_data, valid_data>>

OutNames == {"train", "test", "valid"}

\* An output path: nothing there, a file from before, a file this program
\* wrote in full, or one it opened for writing and did not finish.
File(st, r, data) == [st |-> st, run |-> r, data |-> data]

\* The input path: no file, a file that is not JSON, or a JSON object with or
\* without the key "annotation".
Input(kind, has_key, annotation) ==
    [kind |-> kind, has_key |-> has_key, annotation |-> annotation]

RecordKinds == {Rec(TRUE, p) : p \in Paths} \cup {NoPath}
FilterRecordKinds == {Rec(TRUE, p) : p \in FilterPaths} \cup {NoPath}

InputFiles ==
    {Input("missing", FALSE, <<>>), Input("malformed", FALSE, <<>>),
     Input("object", FALSE, <<>>)}
    \cup {Input("object", TRUE, s) : s \in SeqsUpTo(RecordKinds, MaxRecords)}
    \cup {Input("object", TRUE, [i \in 1..n |-> Rec(TRUE, <<"L", "a">>)]) : n \in LargeSizes}

\* json.dump of {"annotation": list}: each dict with its current path.
Dump(h, list) == [i \in 1..Len(list) |-> [id |-> list[i], item |-> h[list[i]]]]

\* The state before split_json_data is called (line 121).
Init ==
    /\ input_file \in InputFiles
    /\ \E st \in {"absent", "old"} : out_files = [f \in OutNames |-> File(st, 0, <<>>)]
    /\ filter_prefix \in Prefixes
    /\ prepend_path \in Prepends
    /\ train_size \in TrainSizes
    /\ random_state \in Seeds
    /\ pc = "load"
    /\ err = "none"
    /\ run = 1
    /\ heap = <<>>
    /\ heap0 = <<>>
    /\ annotations = <<>>
    /\ modified_annotations = <<>>
    /\ train_data = <<>> /\ temp_data = <<>> /\ test_data = <<>> /\ valid_data = <<>>
    /\ mt = {}
    /\ completed = <<>>

\* --------------------------------------------------------- split_json_data
\* The run ends: by a return after a message, or by an exception nobody
\* catches.
Returns(e) == pc' = "returned" /\ err' = e
Raises(e) == pc' = "raised" /\ err' = e

\* `not x` that never holds: the emptiness check left out.
FalsyMut(x) == FALSE

\* `not x` for a list (lines 55 and 62).
Falsy(x) == x = <<>>

\* Lines 44-52.
Load ==
    /\ pc = "load"
    /\ \/ /\ input_file.kind = "missing"
          /\ Returns("FileNotFoundError")
          /\ UNCHANGED <<heap, heap0>>
       \/ /\ input_file.kind = "malformed"
          /\ Returns("JSONDecodeError")
          /\ UNCHANGED <<heap, heap0>>
       \/ /\ input_file.kind = "object"
          /\ heap' = input_file.annotation
          /\ heap0' = input_file.annotation
          /\ pc' = "annotation"
          /\ UNCHANGED err
    /\ UNCHANGED <<input_file, out_files, args, run, annotations, modified_annotations,
                   lists, mt, completed>>

\* Lines 54-57.
GetAnnotation ==
    /\ pc = "annotation"
    /\ annotations' = IF input_file.has_key THEN [i \in 1..Len(heap) |-> i] ELSE <<>>
    /\ IF Falsy(annotations') THEN Returns("NoAnnotation")
       ELSE pc' = "filter" /\ UNCHANGED err
    /\ UNCHANGED <<input_file, out_files, args, run, heap, heap0, modified_annotations,
                   lists, mt, completed>>

\* Lines 60-64.
Filter ==
    /\ pc = "filter"
    /\ LET r == filter_and_prepend_path(heap, annotations, filter_prefix, prepend_path)
       IN  /\ heap' = r.heap
           /\ modified_annotations' = r.result
           /\ IF r.raised THEN Raises("KeyError")
              ELSE IF Falsy(r.result) THEN Returns("EmptyAfterFilter")
              ELSE pc' = "split1" /\ UNCHANGED err
    /\ UNCHANGED <<input_file, out_files, args, run, heap0, annotations, lists, mt, completed>>

\* Line 67.
Split1 ==
    /\ pc = "split1"
    /\ \E permutation \in rng_permutation(mt, random_state, Len(modified_annotations)) :
         LET r == train_test_split(modified_annotations, None, train_size, permutation)
         IN  IF r.raised
             THEN /\ Raises("ValueError")
                  /\ UNCHANGED <<train_data, temp_data, mt>>
             ELSE /\ train_data' = r.first
                  /\ temp_data' = r.second
                  /\ mt' = mt \cup {[seed |-> random_state, n |-> Len(modified_annotations),
                                     perm |-> permutation]}
                  /\ pc' = "split2"
                  /\ UNCHANGED err
    /\ UNCHANGED <<input_file, out_files, args, run, heap, heap0, annotations,
                   modified_annotations, test_data, valid_data, completed>>

\* Line 70.
Split2 ==
    /\ pc = "split2"
    /\ \E permutation \in rng_permutation(mt, random_state, Len(temp_data)) :
         LET r == train_test_split(temp_data, <<1, 2>>, None, permutation)
         IN  IF r.raised
             THEN /\ Raises("ValueError")
                  /\ UNCHANGED <<test_data, valid_data, mt>>
             ELSE /\ test_data' = r.first
                  /\ valid_data' = r.second
                  /\ mt' = mt \cup {[seed |-> random_state, n |-> Len(temp_data),
                                     perm |-> permutation]}
                  /\ pc' = "write_train"
                  /\ UNCHANGED err
    /\ UNCHANGED <<input_file, out_files, args, run, heap, heap0, annotations,
                   modified_annotations, train_data, temp_data, completed>>

\* A write whose failure is caught and passed over: the run goes on.
WriteMut(f, list, next) ==
    \/ /\ out_files' = [out_files EXCEPT ![f] = File("written", run, Dump(heap, list))]
       /\ pc' = next
       /\ UNCHANGED err
    \/ /\ pc' = next
       /\ UNCHANGED <<out_files, err>>

\* with open(path, 'w') as f: json.dump(...): open may fail and leave the path
\* as it was; once the file is open it is truncated, and a failure while
\* writing leaves it unfinished.
Write(f, list, next) ==
    \/ /\ out_files' = [out_files EXCEPT ![f] = File("written", run, Dump(heap, list))]
       /\ pc' = next
       /\ UNCHANGED err
    \/ /\ Raises("OSError")
       /\ UNCHANGED out_files
    \/ /\ out_files' = [out_files EXCEPT ![f] = File("partial", run, <<>>)]
       /\ Raises("OSError")

\* Lines 78-79.
WriteTrain ==
    /\ pc = "write_train"
    /\ Write("train", train_data, "write_test")
    /\ UNCHANGED <<input_file, args, run, heap, heap0, annotations, modified_annotations,
                   lists, mt, completed>>

\* Lines 80-81.
WriteTest ==
    /\ pc = "write_test"
    /\ Write("test", test_data, "write_valid")
    /\ UNCHANGED <<input_file, args, run, heap, heap0, annotations, modified_annotations,
                   lists, mt, completed>>

\* Lines 82-86: the last write, and the closing message.
WriteValid ==
    /\ pc = "write_valid"
    /\ Write("valid", valid_data, "done")
    /\ completed' = IF pc' = "done"
                    THEN Append(completed, [f \in OutNames |-> out_files'[f].data])
                    ELSE completed
    /\ UNCHANGED <<input_file, args, run, heap, heap0, annotations, modified_annotations,
                   lists, mt>>

Ended == pc \in {"returned", "raised", "done"}

\* The script is run again on the same paths with the same configuration
\* (lines 110-121 fix both).
Rerun ==
    /\ Ended
    /\ run < MaxRuns
    /\ run' = run + 1
    /\ pc' = "load"
    /\ err' = "none"
    /\ heap' = <<>> /\ heap0' = <<>>
    /\ annotations' = <<>> /\ modified_annotations' = <<>>
    /\ train_data' = <<>> /\ temp_data' = <<>> /\ test_data' = <<>> /\ valid_data' = <<>>
    /\ UNCHANGED <<input_file, out_files, args, mt, completed>>

Next ==
    \/ Load \/ GetAnnotation \/ Filter \/ Split1 \/ Split2
    \/ WriteTrain \/ WriteTest \/ WriteValid

\* One run of split_json_data, from every input.
Spec == Init /\ [][Next]_vars

\* Repeated runs with the default train_size and the prefix "L", on the inputs
\* whose records all have a path and with no output file there before the
\* first run.
InitRerun ==
    /\ Init
    /\ \A i \in 1..Len(input_file.annotation) : input_file.annotation[i].has_path
    /\ \A f \in OutNames : out_files[f].st = "absent"
    /\ filter_prefix = <<"L">>
    /\ train_size = DefaultTrainSize

NextRerun == Next \/ Rerun

SpecRerun == InitRerun /\ [][NextRerun]_vars

\* ------------------------------- filter_and_prepend_path, called directly
\* Any list of at most MaxLen references to at most MaxObjs dicts: the same
\* dict may be in the list more than once (as in the list of line 103).
InitFilter ==
    /\ heap \in SeqsUpTo(FilterRecordKinds, MaxObjs)
    /\ heap0 = heap
    /\ annotations \in SeqsUpTo(1..Len(heap), MaxLen)
    /\ filter_prefix \in Prefixes
    /\ prepend_path \in Prepends
    /\ pc = "call"
    /\ err = "none"
    /\ input_file = Input("missing", FALSE, <<>>)
    /\ out_files = [f \in OutNames |-> File("absent", 0, <<>>)]
    /\ train_size = DefaultTrainSize
    /\ random_state = 42
    /\ run = 1
    /\ modified_annotations = <<>>
    /\ train_data = <<>> /\ temp_data = <<>> /\ test_data = <<>> /\ valid_data = <<>>
    /\ mt = {}
    /\ completed = <<>>

\* Lines 6-25, as one call.
CallFilter ==
    /\ pc = "call"
    /\ LET r == filter_and_prepend_path(heap, annotations, filter_prefix, prepend_path)
       IN  /\ heap' = r.heap
           /\ modified_annotations' = r.result
           /\ IF r.raised THEN Raises("KeyError")
              ELSE pc' = "result" /\ UNCHANGED err
    /\ UNCHANGED <<input_file, out_files, args, run, heap0, annotations, lists, mt, completed>>

SpecFilter == InitFilter /\ [][CallFilter]_vars


\* ------------------------------------------------------------- properties
NoDuplicates(s) == Cardinality(Range(s)) = Len(s)

\* Both splits have returned.
SplitDone ==
    \/ pc \in {"write_train", "write_test", "write_valid", "done"}
    \/ pc = "raised" /\ err = "OSError"

\* The output files the current run has written in full, and those it has
\* opened for writing at all.
Written == {f \in OutNames : out_files[f].run = run /\ out_files[f].st = "written"}
Touched == {f \in OutNames : out_files[f].run = run}

\* The path a record of the input document had in the document.
OriginalPath(id) == GetPath(input_file.annotation[id])

\* C1: once both splits have returned, train, test and valid are pairwise
\* disjoint, hold no record twice, and together are exactly the filtered
\* records: |train| + |test| + |valid| = |filtered records|.
C1_Partition ==
    SplitDone =>
        /\ NoDuplicates(train_data) /\ NoDuplicates(test_data) /\ NoDuplicates(valid_data)
        /\ Range(train_data) \cap Range(test_data) = {}
        /\ Range(train_data) \cap Range(valid_data) = {}
        /\ Range(test_data) \cap Range(valid_data) = {}
        /\ Range(train_data) \cup Range(test_data) \cup Range(valid_data)
             = Range(modified_annotations)
        /\ Len(train_data) + Len(test_data) + Len(valid_data) = Len(modified_annotations)

\* A run with the default train_size whose six filtered records were split
\* and written.
C1_Witness ==
    /\ pc = "done"
    /\ train_size = DefaultTrainSize
    /\ Len(modified_annotations) = 6
    /\ Len(test_data) = 1 /\ Len(valid_data) = 1

\* C2, as claimed: however a run ends, either all three output files were
\* written by it or none was.
C2_AllOrNone == Ended => Written \in {{}, OutNames}

\* C2, amended: a run that ends at the load, the key check, the filter or one
\* of the splits has touched no output file; a run that completes has written
\* all three; a run that ends in a failing write has written the files before
\* the failing one, in the order train, test, valid, and only those.
C2_WritesInOrder ==
    Ended =>
        /\ err \notin {"none", "OSError"} => Touched = {}
        /\ pc = "done" <=> err = "none"
        /\ pc = "done" => Written = OutNames
        /\ err = "OSError" => Written \in {{}, {"train"}, {"train", "test"}}
        /\ Touched \ Written = {} \/ err = "OSError"

\* A run whose write of test.json failed after train.json was written.
C2_Witness ==
    /\ pc = "raised" /\ err = "OSError"
    /\ Written = {"train"}
    /\ out_files["test"].st \in {"absent", "old"}

\* C3, as claimed: filter_and_prepend_path returns exactly the records whose
\* original path starts with filter_prefix, in their original order, and the
\* path of each returned record is prepend_path followed by its original path.
C3_FilterExact ==
    pc # "call" =>
        /\ pc = "result"
        /\ LET Starts(a) == StartsWith(GetPath(heap0[a]), filter_prefix)
           IN  modified_annotations = SelectSeq(annotations, Starts)
        /\ \A i \in 1..Len(modified_annotations) :
             LET a == modified_annotations[i]
             IN  heap[a].has_path /\ heap[a].path = prepend_path \o GetPath(heap0[a])

\* C4: no output file holds a record whose path in the input document does
\* not start with filter_prefix.
C4_FilteredOut ==
    \A f \in OutNames : \A i \in 1..Len(out_files[f].data) :
        StartsWith(OriginalPath(out_files[f].data[i].id), filter_prefix)

\* A completed run on a document that has a record the filter rejects.
C4_Witness ==
    /\ pc = "done"
    /\ \E i \in 1..Len(input_file.annotation) : ~StartsWith(OriginalPath(i), filter_prefix)
    /\ \A f \in OutNames : out_files[f].data # <<>>

\* The four conditions of C5, each with the message the run prints.
MissingInput == input_file.kind = "missing"
MalformedInput == input_file.kind = "malformed"
NoAnnotations ==
    input_file.kind = "object" /\ (~input_file.has_key \/ input_file.annotation = <<>>)
AllFilteredOut ==
    /\ input_file.kind = "object" /\ input_file.has_key /\ input_file.annotation # <<>>
    /\ \A i \in 1..Len(input_file.annotation) : ~StartsWith(OriginalPath(i), filter_prefix)

\* C5: when the input file is missing or is not JSON, when the annotation key
\* is absent or its list empty, or when no record passes the filter, the run
\* never gets to a split, ends by returning after the message for that
\* condition, and leaves every output path as it was.
C5_HaltsBeforeSplit ==
    (MissingInput \/ MalformedInput \/ NoAnnotations \/ AllFilteredOut) =>
        /\ pc \in {"load", "annotation", "filter", "returned"}
        /\ pc = "returned" =>
             /\ MissingInput => err = "FileNotFoundError"
             /\ MalformedInput => err = "JSONDecodeError"
             /\ NoAnnotations => err = "NoAnnotation"
             /\ AllFilteredOut => err = "EmptyAfterFilter"
        /\ pc # "returned" => err = "none"
        /\ \A f \in OutNames : out_files[f].run = 0 /\ out_files[f].st \in {"absent", "old"}
        /\ train_data = <<>> /\ temp_data = <<>> /\ test_data = <<>> /\ valid_data = <<>>

\* A run that returned because the filter left nothing, with the earlier
\* output files still in place.
C5_Witness ==
    /\ pc = "returned" /\ err = "EmptyAfterFilter"
    /\ input_file.annotation # <<>>
    /\ \A f \in OutNames : out_files[f].st = "old"

\* C6: the runs that complete on the same input document with the same
\* filter_prefix, prepend_path, train_size and random_state write the same
\* train, test and valid outputs.
C6_Deterministic ==
    \A i, j \in 1..Len(completed) : completed[i] = completed[j]

\* Two completed runs.
C6_Witness ==
    /\ Len(completed) = 2
    /\ completed[1]["train"] # <<>>
    /\ run = 2 /\ pc = "done"

\* C7, as claimed: with train_size 0.8 and exactly one record left by the
\* filter, the run completes and one of the three subsets holds that record
\* while the other two are empty.
C7_SingleRecord ==
    (Ended /\ err # "OSError" /\ train_size = DefaultTrainSize
       /\ Len(modified_annotations) = 1) =>
        /\ pc = "done"
        /\ \E s \in {train_data, test_data, valid_data} : s = modified_annotations
        /\ Len(train_data) + Len(test_data) + Len(valid_data) = 1

\* C8: with 100 filtered records and train_size 0.8 the two splits give 80
\* train, 10 test and 10 valid records.
C8_Sizes ==
    (SplitDone /\ train_size = DefaultTrainSize /\ Len(modified_annotations) = 100) =>
        /\ Len(train_data) = 80
        /\ Len(test_data) = 10
        /\ Len(valid_data) = 10

\* A completed run on 100 filtered records.
C8_Witness ==
    /\ pc = "done"
    /\ train_size = DefaultTrainSize
    /\ Len(modified_annotations) = 100
    /\ Len(out_files["train"].data) = 80

\* C9, as claimed: when the list holds a record with no path, the call
\* completes without error, whatever filter_prefix is, and returns no record
\* that had no path.
C9_AbsentPathExcluded ==
    (pc # "call" /\ \E i \in 1..Len(annotations) : ~heap0[annotations[i]].has_path) =>
        /\ pc = "result"
        /\ \A j \in 1..Len(modified_annotations) : heap0[modified_annotations[j]].has_path

\* C10, as claimed: when the first split leaves fewer than 2 records, the
\* second split still returns, test and valid together are that remainder,
\* and unless a write fails the three files are written.
C10_SmallRemainder ==
    (Ended /\ train_data # <<>> /\ Len(temp_data) < 2) =>
        /\ err # "ValueError"
        /\ Range(test_data) \cup Range(valid_data) = Range(temp_data)
        /\ err = "none" => pc = "done" /\ Written = OutNames

====
